---- MODULE Spec2Model ----
(***************************************************************************)
(* A model of GraphMaker's asynchronous training entry point               *)
(* (src/train_async.py) and of its evaluation utilities                    *)
(* (src/eval_utils.py).                                                    *)
(*                                                                         *)
(* The module holds several specifications over one set of variables.     *)
(* Each specification drives one part of the program and pins the          *)
(* variables of the other parts to their idle values:                      *)
(*   SpecEdge   the edge index built in main (torch.triu_indices + stack)  *)
(*   SpecMask   Evaluator.add_mask and the three add_mask_* strategies     *)
(*   SpecEval   Evaluator.__init__, preprocess_g and sample_subg           *)
(*   SpecHom    linkx_homophily                                            *)
(*   SpecTrain  main: configuration reads, set-up and the mini-batch loop  *)
(*   SpecOrch   main's loop followed, per epoch, by the validation,        *)
(*              checkpoint-decision and stop-check steps that the          *)
(*              specification document describes and main does not hold    *)
(* Tensors of floats are modelled by integers (or exact fractions), node   *)
(* ids count from 0 as in Python.                                          *)
(***************************************************************************)
EXTENDS Integers, Sequences, FiniteSets, TLC

VARIABLES
  \* ---- edge index builder (main, lines 49-52)
  ePc, eN, triu_row, triu_col, dst, src, edge_index,
  \* ---- Evaluator.add_mask and add_mask_* (eval_utils.py, lines 99-226)
  mPc, mName, mN, Y_one_hot, mC, mY, train_mask, val_mask, test_mask, ndata,
  \* ---- linkx_homophily (eval_utils.py, lines 10-61)
  hPc, hGraph, hY, hValue,
  \* ---- Evaluator.__init__, preprocess_g, sample_subg (eval_utils.py, 63-97, 228-279)
  vPc, data_name, edge_limit, add_mask, dgl_g, vY, dgl_subg, sub_g,
  \* ---- main (train_async.py, lines 16-127)
  tPc, yaml_data, wandb_run, wandb_logged, cpt_dir, n_batches, heap, grad,
  loss_X, loss_E, epoch, batch, num_patient_epochs,
  best_epoch_X, best_state_dict_X, best_val_nll_X, best_log_p_0_X, best_denoise_match_X,
  best_epoch_E, best_state_dict_E, best_val_nll_E, best_log_p_0_E, best_denoise_match_E,
  \* ---- the validation cycle the specification document describes
  val, lr_sched, since_improved

edgeVars == <<ePc, eN, triu_row, triu_col, dst, src, edge_index>>
maskVars == <<mPc, mName, mN, Y_one_hot, mC, mY, train_mask, val_mask,
              test_mask, ndata>>

homVars == <<hPc, hGraph, hY, hValue>>

evalVars == <<vPc, data_name, edge_limit, add_mask, dgl_g, vY, dgl_subg, sub_g>>

bestVarsX == <<best_epoch_X, best_state_dict_X, best_val_nll_X, best_log_p_0_X,
               best_denoise_match_X>>
bestVarsE == <<best_epoch_E, best_state_dict_E, best_val_nll_E, best_log_p_0_E,
               best_denoise_match_E>>
runVars == <<tPc, yaml_data, wandb_run, wandb_logged, cpt_dir, n_batches, heap, grad,
             loss_X, loss_E, epoch, batch, num_patient_epochs>>
cycleVars == <<val, lr_sched, since_improved>>
trainVars == <<runVars, bestVarsX, bestVarsE, cycleVars>>

vars == <<edgeVars, maskVars, homVars, evalVars, trainVars>>

\* what the actions of one part leave alone: the variables of the other parts
edgeFrame == <<maskVars, homVars, evalVars, trainVars>>
maskFrame == <<edgeVars, homVars, evalVars, trainVars>>
homFrame == <<edgeVars, maskVars, evalVars, trainVars>>
evalFrame == <<edgeVars, homVars, trainVars>>
trainFrame == <<maskVars, homVars, evalVars>>

Min(a, b) == IF a <= b THEN a ELSE b
Max(a, b) == IF a >= b THEN a ELSE b
Range(s) == {s[i] : i \in 1..Len(s)}

\* Python's s[a:b] for 0 <= a <= b: the elements at positions a .. b-1 that exist
PySlice(s, a, b) == SubSeq(s, a + 1, Min(b, Len(s)))

(***************************************************************************)
(* Edge index: N = g.num_nodes(); dst, src = torch.triu_indices(N, N,      *)
(* offset=1); edge_index = torch.stack([dst, src], dim=1).                 *)
(* triu_indices walks the N x N matrix row by row and emits the entries    *)
(* (row, col) with col >= row + offset; its first output row holds the     *)
(* row indices, its second the column indices.                             *)
(***************************************************************************)
EdgeMaxN == 8

\* offset=1 of the call at line 50
Offset == 1

\* a mutant of TriuRowStart: the diagonal is kept (offset 0)
TriuRowStartDiag(row) == row

\* the first column triu_indices emits in a row
TriuRowStart(row) == row + Offset

\* torch.stack([dst, src], dim=1): row k of the result is (dst[k], src[k])
Stack(a, b) == [k \in 1..Len(a) |-> <<a[k], b[k]>>]

EdgeIdle ==
  /\ ePc = "idle" /\ eN = 0 /\ triu_row = 0 /\ triu_col = 0
  /\ dst = <<>> /\ src = <<>> /\ edge_index = <<>>

EdgeInit ==
  /\ ePc = "triu"
  /\ eN \in 2..EdgeMaxN
  /\ triu_row = 0
  /\ triu_col = TriuRowStart(0)
  /\ dst = <<>> /\ src = <<>> /\ edge_index = <<>>

\* triu_indices emits the entry (triu_row, triu_col)
TriuEmit ==
  /\ ePc = "triu" /\ triu_row < eN /\ triu_col < eN
  /\ dst' = Append(dst, triu_row)
  /\ src' = Append(src, triu_col)
  /\ triu_col' = triu_col + 1
  /\ UNCHANGED <<ePc, eN, triu_row, edge_index>>
  /\ UNCHANGED edgeFrame

\* triu_indices moves to the next row
TriuNextRow ==
  /\ ePc = "triu" /\ triu_row < eN /\ triu_col >= eN
  /\ triu_row' = triu_row + 1
  /\ triu_col' = TriuRowStart(triu_row + 1)
  /\ UNCHANGED <<ePc, eN, dst, src, edge_index>>
  /\ UNCHANGED edgeFrame

\* line 52: edge_index = torch.stack([dst, src], dim=1)
StackEdgeIndex ==
  /\ ePc = "triu" /\ triu_row >= eN
  /\ edge_index' = Stack(dst, src)
  /\ ePc' = "built"
  /\ UNCHANGED <<eN, triu_row, triu_col, dst, src>>
  /\ UNCHANGED edgeFrame

EdgeNext == TriuEmit \/ TriuNextRow \/ StackEdgeIndex

(***************************************************************************)
(* Split masks: Evaluator.add_mask dispatches on data_name to             *)
(* add_mask_cora, add_mask_citeseer or add_mask_benchmark.  Each walks the *)
(* classes y = 0 .. num_classes-1, permutes the nodes of class y           *)
(* (torch.randperm) and writes 1. into three float masks by slices of the  *)
(* permuted node list; the masks are attached to the graph as booleans.    *)
(***************************************************************************)
\* node counts of the graphs the masks are built for
MaskSmallN == 3
MaskMidN == 24
MaskMaxN == 52
\* Y_one_hot.size(-1) ranges over 1 .. MaskMaxClasses
MaskMaxClasses == 7
\* the permutations drawn for torch.randperm(n): rotations by 0 .. MaskMaxShift
MaskMaxShift == 1

\* nodes_y[:20]
TrainQuota == 20
\* val_mask[nodes_y[20: 50]], test_mask[nodes_y[50:]]
BenchValEnd == 50

\* add_mask_cora: num_val_nodes, num_test_nodes (keys 0..6)
CoraNumValNodes == <<61, 36, 78, 158, 81, 57, 29>>
CoraNumTestNodes == <<130, 91, 144, 319, 149, 103, 64>>
\* add_mask_citeseer: num_val_nodes, num_test_nodes (keys 0..5)
CiteseerNumValNodes == <<29, 86, 116, 106, 94, 69>>
CiteseerNumTestNodes == <<77, 182, 181, 231, 169, 160>>

\* the names add_mask dispatches on
CoraName == "cora"
CiteseerName == "citeseer"
BenchmarkNames == {"amazon_photo", "amazon_computer"}
\* a name add_mask does not know
OtherName == "pubmed"

\* (Y_one_hot[:, y] == 1.).nonzero().squeeze(-1): the nodes of class y, ascending
RECURSIVE NonzeroFrom(_, _, _, _)
NonzeroFrom(Y, y, v, n) ==
  IF v >= n THEN <<>>
  ELSE (IF Y[v][y] = 1 THEN <<v>> ELSE <<>>) \o NonzeroFrom(Y, y, v + 1, n)

NodesOfClass(Y, y, n) == NonzeroFrom(Y, y, 0, n)

\* the outcomes of torch.randperm(n) the model draws: the rotations of 0..n-1
\* by 0 .. MaskMaxShift, each as it is and reversed
RandPerms(n) ==
  { [i \in 1..n |-> ((i - 1) + s) % n] : s \in 0..Min(MaskMaxShift, Max(n - 1, 0)) }
  \cup
  { [i \in 1..n |-> ((n - i) + s) % n] : s \in 0..Min(MaskMaxShift, Max(n - 1, 0)) }

\* nodes_y[nid_y]
Gather(nodes_y, nid_y) == [i \in 1..Len(nid_y) |-> nodes_y[nid_y[i] + 1]]

\* mask[idx] = 1.
IndexPut(mask, idx) == [v \in DOMAIN mask |-> IF v \in Range(idx) THEN 1 ELSE mask[v]]

\* a mutant of QuotaSplit: the validation slice starts one position early
QuotaSplitOverlap(nodes_y, num_val, num_test) ==
  [train |-> PySlice(nodes_y, 0, TrainQuota),
   val   |-> PySlice(nodes_y, TrainQuota - 1, TrainQuota + num_val),
   test  |-> PySlice(nodes_y, TrainQuota + num_val, TrainQuota + num_val + num_test)]

\* add_mask_cora / add_mask_citeseer: nodes_y[:20], nodes_y[20: 20 + v],
\* nodes_y[20 + v: 20 + v + t]
QuotaSplit(nodes_y, num_val, num_test) ==
  [train |-> PySlice(nodes_y, 0, TrainQuota),
   val   |-> PySlice(nodes_y, TrainQuota, TrainQuota + num_val),
   test  |-> PySlice(nodes_y, TrainQuota + num_val, TrainQuota + num_val + num_test)]

\* add_mask_benchmark: nodes_y[:20], nodes_y[20: 50], nodes_y[50:]
BenchmarkSplit(nodes_y) ==
  [train |-> PySlice(nodes_y, 0, TrainQuota),
   val   |-> PySlice(nodes_y, TrainQuota, BenchValEnd),
   test  |-> PySlice(nodes_y, BenchValEnd, Len(nodes_y))]

\* torch.zeros(num_nodes)
Zeros(n) == [v \in 0..(n - 1) |-> 0]

\* mask.bool()
ToBool(mask) == [v \in DOMAIN mask |-> mask[v] # 0]

\* the one-hot label tensors drawn: the first r nodes take the classes in turn,
\* the other nodes are of class b
Labels(n, c, r, b) == [v \in 0..(n - 1) |-> IF v < r THEN v % c ELSE b]
OneHot(lab, c) == [v \in DOMAIN lab |-> [y \in 0..(c - 1) |-> IF lab[v] = y THEN 1 ELSE 0]]

NoMasks == [train_mask |-> <<>>, val_mask |-> <<>>, test_mask |-> <<>>]

MaskIdle ==
  /\ mPc = "idle" /\ mName = "" /\ mN = 0 /\ Y_one_hot = <<>> /\ mC = 0 /\ mY = 0
  /\ train_mask = <<>> /\ val_mask = <<>> /\ test_mask = <<>> /\ ndata = NoMasks

MaskInit ==
  /\ mPc = "add_mask"
  /\ mName \in {CoraName, CiteseerName, OtherName} \cup BenchmarkNames
  /\ mN \in {MaskSmallN, MaskMidN, MaskMaxN}
  /\ mC \in 1..MaskMaxClasses
  /\ \E r \in {0, Min(mC, mN), mN}, b \in 0..(mC - 1) :
       Y_one_hot = OneHot(Labels(mN, mC, r, b), mC)
  /\ mY = 0
  /\ train_mask = <<>> /\ val_mask = <<>> /\ test_mask = <<>> /\ ndata = NoMasks

\* add_mask: the dispatch, then the head of the chosen add_mask_* (the three
\* masks are zeroed)
AddMaskDispatch ==
  /\ mPc = "add_mask"
  /\ mName \in {CoraName, CiteseerName} \cup BenchmarkNames
  /\ mPc' = IF mName = CoraName THEN "cora"
            ELSE IF mName = CiteseerName THEN "citeseer" ELSE "benchmark"
  /\ train_mask' = Zeros(mN) /\ val_mask' = Zeros(mN) /\ test_mask' = Zeros(mN)
  /\ UNCHANGED <<mName, mN, Y_one_hot, mC, mY, ndata>>
  /\ UNCHANGED maskFrame

\* add_mask: raise ValueError(f'Unexpected data name: {self.data_name}')
AddMaskValueError ==
  /\ mPc = "add_mask"
  /\ mName \notin {CoraName, CiteseerName} \cup BenchmarkNames
  /\ mPc' = "ValueError"
  /\ UNCHANGED <<mName, mN, Y_one_hot, mC, mY, train_mask, val_mask, test_mask, ndata>>
  /\ UNCHANGED maskFrame

\* one pass of the class loop of add_mask_cora or add_mask_citeseer
QuotaLoopBody(num_val_nodes, num_test_nodes) ==
  /\ mY < mC /\ mY + 1 \in DOMAIN num_val_nodes
  /\ LET nodes == NodesOfClass(Y_one_hot, mY, mN) IN
     \E nid_y \in RandPerms(Len(nodes)) :
       LET sp == QuotaSplit(Gather(nodes, nid_y),
                            num_val_nodes[mY + 1], num_test_nodes[mY + 1]) IN
       /\ train_mask' = IndexPut(train_mask, sp.train)
       /\ val_mask' = IndexPut(val_mask, sp.val)
       /\ test_mask' = IndexPut(test_mask, sp.test)
  /\ mY' = mY + 1
  /\ UNCHANGED <<mPc, mName, mN, Y_one_hot, mC, ndata>>
  /\ UNCHANGED maskFrame

AddMaskCoraLoop ==
  /\ mPc = "cora"
  /\ QuotaLoopBody(CoraNumValNodes, CoraNumTestNodes)

AddMaskCiteseerLoop ==
  /\ mPc = "citeseer"
  /\ QuotaLoopBody(CiteseerNumValNodes, CiteseerNumTestNodes)

\* num_val_nodes[y] for a class index the table does not hold: KeyError
AddMaskKeyError ==
  /\ \/ mPc = "cora" /\ mY + 1 \notin DOMAIN CoraNumValNodes
     \/ mPc = "citeseer" /\ mY + 1 \notin DOMAIN CiteseerNumValNodes
  /\ mY < mC
  /\ mPc' = "KeyError"
  /\ UNCHANGED <<mName, mN, Y_one_hot, mC, mY, train_mask, val_mask, test_mask, ndata>>
  /\ UNCHANGED maskFrame

\* one pass of the class loop of add_mask_benchmark
AddMaskBenchmarkLoop ==
  /\ mPc = "benchmark" /\ mY < mC
  /\ LET nodes == NodesOfClass(Y_one_hot, mY, mN) IN
     \E nid_y \in RandPerms(Len(nodes)) :
       LET sp == BenchmarkSplit(Gather(nodes, nid_y)) IN
       /\ train_mask' = IndexPut(train_mask, sp.train)
       /\ val_mask' = IndexPut(val_mask, sp.val)
       /\ test_mask' = IndexPut(test_mask, sp.test)
  /\ mY' = mY + 1
  /\ UNCHANGED <<mPc, mName, mN, Y_one_hot, mC, ndata>>
  /\ UNCHANGED maskFrame

\* dgl_g.ndata["train_mask"] = train_mask.bool(), ...; return dgl_g
AddMaskReturn ==
  /\ mPc \in {"cora", "citeseer", "benchmark"} /\ mY >= mC
  /\ ndata' = [train_mask |-> ToBool(train_mask), val_mask |-> ToBool(val_mask),
               test_mask |-> ToBool(test_mask)]
  /\ mPc' = "returned"
  /\ UNCHANGED <<mName, mN, Y_one_hot, mC, mY, train_mask, val_mask, test_mask>>
  /\ UNCHANGED maskFrame

MaskNext ==
  \/ AddMaskDispatch \/ AddMaskValueError \/ AddMaskCoraLoop \/ AddMaskCiteseerLoop
  \/ AddMaskKeyError \/ AddMaskBenchmarkLoop \/ AddMaskReturn

(***************************************************************************)
(* linkx_homophily(graph, y).  A graph is [n, edges]: nodes 0..n-1 and a   *)
(* set of directed edges <<u, v>> from u (src) to v (dst).  Float values   *)
(* are exact fractions [num, den] in lowest terms with den > 0.            *)
(***************************************************************************)
HomMaxNodes == 4
\* the graphs drawn hold at most HomMaxLinks node pairs (or self-loops)
HomMaxLinks == 3
\* the labels drawn are 0 .. HomMaxLabel
HomMaxLabel == 2

RECURSIVE GCD(_, _)
GCD(a, b) == IF b = 0 THEN a ELSE GCD(b, a % b)
Abs(a) == IF a < 0 THEN -a ELSE a

Frac(a, b) ==
  LET g == GCD(Abs(a), b) IN [num |-> a \div g, den |-> b \div g]
FracAdd(x, y) == Frac(x.num * y.den + y.num * x.den, x.den * y.den)
FracSub(x, y) == Frac(x.num * y.den - y.num * x.den, x.den * y.den)
FracDivInt(x, c) == Frac(x.num, x.den * c)
FracPositive(x) == x.num > 0
FracZero == [num |-> 0, den |-> 1]

Nodes(g) == 0..(g.n - 1)

\* graph.edata["same_class"] = (y[src] == y[dst]).float()
SameClass(g, y) == [e \in g.edges |-> IF y[e[1]] = y[e[2]] THEN 1 ELSE 0]

\* a mutant of SameClassDeg: the messages are summed at the source node
SameClassDegAtSource(g, y) ==
  [v \in Nodes(g) |-> Cardinality({e \in g.edges : e[1] = v /\ SameClass(g, y)[e] = 1})]

\* graph.update_all(fn.copy_e("same_class", "m"), fn.sum("m", "same_class_deg")):
\* every node sums same_class over its in-edges
SameClassDeg(g, y) ==
  [v \in Nodes(g) |-> Cardinality({e \in g.edges : e[2] = v /\ SameClass(g, y)[e] = 1})]

\* graph.in_degrees()
InDegrees(g) == [v \in Nodes(g) |-> Cardinality({e \in g.edges : e[2] = v})]

RECURSIVE MaxLabelFrom(_, _, _)
MaxLabelFrom(y, v, n) ==
  IF v >= n THEN 0 ELSE Max(y[v], MaxLabelFrom(y, v + 1, n))

\* y.max(dim=0).values.item() + 1
NumClasses(g, y) == MaxLabelFrom(y, 0, g.n) + 1

\* t[class_mask].sum() for class_mask = (y == k)
RECURSIVE MaskedSumFrom(_, _, _, _, _)
MaskedSumFrom(t, y, k, v, n) ==
  IF v >= n THEN 0
  ELSE (IF y[v] = k THEN t[v] ELSE 0) + MaskedSumFrom(t, y, k, v + 1, n)

\* max(0, same_class_deg_k / deg_k - num_nodes_k / num_nodes).  With deg_k = 0
\* the quotient is 0/0 = nan, nan > 0 is false and Python's max keeps the 0.
ClassTerm(g, y, k) ==
  LET same_class_deg_k == MaskedSumFrom(SameClassDeg(g, y), y, k, 0, g.n)
      deg_k == MaskedSumFrom(InDegrees(g), y, k, 0, g.n)
      num_nodes_k == MaskedSumFrom([v \in Nodes(g) |-> 1], y, k, 0, g.n)
  IN IF deg_k = 0 THEN FracZero
     ELSE LET t == FracSub(Frac(same_class_deg_k, deg_k), Frac(num_nodes_k, g.n))
          IN IF FracPositive(t) THEN t ELSE FracZero

\* for k in range(num_classes): value += ...
RECURSIVE ClassLoop(_, _, _, _, _)
ClassLoop(g, y, k, num_classes, value) ==
  IF k >= num_classes THEN value
  ELSE ClassLoop(g, y, k + 1, num_classes, FracAdd(value, ClassTerm(g, y, k)))

\* a mutant of Normalizer: the sum is divided by the number of classes
NormalizerAllClasses(num_classes) == num_classes

\* the divisor of line 61: num_classes - 1
Normalizer(num_classes) == num_classes - 1

\* linkx_homophily: the value returned, or the ZeroDivisionError of the last
\* line when there is one class
LinkxHomophily(g, y) ==
  LET num_classes == NumClasses(g, y)
      value == ClassLoop(g, y, 0, num_classes, FracZero)
  IN IF Normalizer(num_classes) = 0
     THEN [raised |-> "ZeroDivisionError"]
     ELSE [returned |-> FracDivInt(value, Normalizer(num_classes))]

\* the graphs drawn: at most HomMaxLinks node pairs u <= v, each joined in both
\* directions, only upwards (u -> v) or only downwards (v -> u)
RECURSIVE SubsetsUpTo(_, _)
SubsetsUpTo(S, k) ==
  IF k = 0 \/ S = {} THEN {{}}
  ELSE LET x == CHOOSE x \in S : TRUE
           rest == SubsetsUpTo(S \ {x}, k)
       IN rest \cup {T \cup {x} : T \in SubsetsUpTo(S \ {x}, k - 1)}

Links(n) == {<<u, v>> \in (0..(n - 1)) \X (0..(n - 1)) : u <= v}
Reversed(E) == {<<e[2], e[1]>> : e \in E}
HomGraphs(n) ==
  UNION { { [n |-> n, edges |-> U \cup Reversed(U)],
            [n |-> n, edges |-> U],
            [n |-> n, edges |-> Reversed(U)] } : U \in SubsetsUpTo(Links(n), HomMaxLinks) }

\* the label vectors drawn: non-decreasing (every labelled graph is a
\* renumbering of one with non-decreasing labels)
HomLabels(n) ==
  {y \in [0..(n - 1) -> 0..HomMaxLabel] : \A v \in 0..(n - 2) : y[v] <= y[v + 1]}

NoGraph == [n |-> 0, edges |-> {}]

HomIdle == hPc = "idle" /\ hGraph = NoGraph /\ hY = <<>> /\ hValue = <<>>

HomInit ==
  /\ hPc = "call"
  /\ \E n \in 2..HomMaxNodes : hGraph \in HomGraphs(n) /\ hY \in HomLabels(n)
  /\ hValue = <<>>

\* linkx_homophily(graph, y) runs
HomCall ==
  /\ hPc = "call"
  /\ hValue' = LinkxHomophily(hGraph, hY)
  /\ hPc' = "done"
  /\ UNCHANGED <<hGraph, hY>>
  /\ UNCHANGED homFrame

HomNext == HomCall

(***************************************************************************)
(* Evaluator.__init__, preprocess_g and sample_subg.  __init__ stores the  *)
(* name and the edge limit, decides add_mask and runs preprocess_g on the  *)
(* real graph; preprocess_g attaches the masks (when asked), picks the     *)
(* graph the costly statistics use and computes the statistics.  The       *)
(* attribute matrix X and the triangle count are values local to           *)
(* preprocess_g that nothing reads; they are left out.                     *)
(***************************************************************************)
EvalNodes == 3
\* the graphs drawn hold at most EvalMaxLinks node pairs (or self-loops)
EvalMaxLinks == 4
\* the label tensors drawn hold 1 .. EvalMaxClasses classes
EvalMaxClasses == 2

\* min(dgl_g_real.num_edges(), 20000)
EdgeCeiling == 20000

NumEdges(g) == Cardinality(g.edges)

\* torch.triu(dgl_g.adj().to_dense(), diagonal=1).nonzero(): the edges (u, v)
\* with u < v
UpperEdges(g) == {e \in g.edges : e[1] < e[2]}

\* a mutant of SampleCount: edge_limit edges are drawn
SampleCountFull(limit) == limit

\* self.edge_limit // 2
SampleCount(limit) == limit \div 2

\* edges[torch.randperm(edges.size(0))[:count]]: count of the edges, or all of
\* them when there are fewer, whichever the permutation puts first
Sampled(edges, count) ==
  {S \in SUBSET edges : Cardinality(S) = Min(count, Cardinality(edges))}

\* a mutant of ToBidirected: the reverse edges are not added
ToBidirectedOneWay(g) == g

\* dgl.to_bidirected(sub_g): every edge and its reverse, once each
ToBidirected(g) == [n |-> g.n, edges |-> g.edges \cup Reversed(g.edges)]

\* sample_subg(dgl_g): the graphs it may return
SampleSubg(g, limit) ==
  { ToBidirected([n |-> g.n, edges |-> S]) : S \in Sampled(UpperEdges(g), SampleCount(limit)) }

\* Y_one_hot.argmax(dim=-1)
ArgMax(Y) == [v \in DOMAIN Y |-> CHOOSE y \in DOMAIN Y[v] :
                /\ \A z \in DOMAIN Y[v] : Y[v][z] <= Y[v][y]
                /\ \A z \in DOMAIN Y[v] : Y[v][z] = Y[v][y] => y <= z]

\* the names the Evaluator is documented to accept
RecognizedNames == {CoraName, CiteseerName} \cup BenchmarkNames

EvalGraphs(n) ==
  UNION { { [n |-> n, edges |-> U \cup Reversed(U)],
            [n |-> n, edges |-> U],
            [n |-> n, edges |-> Reversed(U)] } : U \in SubsetsUpTo(Links(n), EvalMaxLinks) }

\* the real graphs drawn: the first m node pairs u < v, joined in both
\* directions or upwards only
RECURSIVE FirstLinks(_, _)
FirstLinks(S, m) ==
  IF m = 0 \/ S = {} THEN {}
  ELSE LET x == CHOOSE x \in S : \A z \in S : x[1] < z[1] \/ (x[1] = z[1] /\ x[2] <= z[2])
       IN {x} \cup FirstLinks(S \ {x}, m - 1)
RealGraphs(n) ==
  UNION { { [n |-> n, edges |-> FirstLinks({l \in Links(n) : l[1] < l[2]}, m)],
            [n |-> n, edges |-> FirstLinks({l \in Links(n) : l[1] < l[2]}, m)
                                \cup Reversed(FirstLinks({l \in Links(n) : l[1] < l[2]}, m))] }
          : m \in 0..EvalMaxLinks }

EvalIdle ==
  /\ vPc = "idle" /\ data_name = "" /\ edge_limit = 0 /\ add_mask = FALSE
  /\ dgl_g = NoGraph /\ vY = <<>> /\ dgl_subg = NoGraph /\ sub_g = NoGraph

\* Evaluator(data_name, dgl_g_real, X_one_hot_3d_real, Y_one_hot_real) is called
EvalInit ==
  /\ vPc = "__init__"
  /\ data_name \in RecognizedNames \cup {OtherName}
  /\ dgl_g \in RealGraphs(EvalNodes)
  /\ \E c \in 1..EvalMaxClasses : vY = OneHot(Labels(EvalNodes, c, EvalNodes, 0), c)
  /\ edge_limit = 0 /\ add_mask = FALSE /\ dgl_subg = NoGraph /\ sub_g = NoGraph

\* __init__, lines 82-92
EvaluatorInit ==
  /\ vPc = "__init__"
  /\ edge_limit' = Min(NumEdges(dgl_g), EdgeCeiling)
  /\ add_mask' = (data_name \in BenchmarkNames)
  /\ vPc' = "preprocess_g"
  /\ UNCHANGED <<data_name, dgl_g, vY, dgl_subg, sub_g>>
  /\ UNCHANGED maskVars /\ UNCHANGED evalFrame

\* preprocess_g, lines 260-261: dgl_g = self.add_mask(dgl_g, Y_one_hot)
PreprocessCallAddMask ==
  /\ vPc = "preprocess_g" /\ add_mask
  /\ mPc' = "add_mask" /\ mName' = data_name /\ mN' = dgl_g.n
  /\ Y_one_hot' = vY /\ mC' = Cardinality(DOMAIN vY[0]) /\ mY' = 0
  /\ UNCHANGED <<train_mask, val_mask, test_mask, ndata>>
  /\ vPc' = "in_add_mask"
  /\ UNCHANGED <<data_name, edge_limit, add_mask, dgl_g, vY, dgl_subg, sub_g>>
  /\ UNCHANGED evalFrame

\* preprocess_g, lines 263-279, once the masks are attached or were not asked
\* for: the graph of the costly statistics is chosen and linkx_homophily runs
\* on the full graph; a single class makes it raise ZeroDivisionError
PreprocessStatistics ==
  /\ \/ vPc = "preprocess_g" /\ ~add_mask
     \/ vPc = "in_add_mask" /\ mPc = "returned"
  /\ IF NumEdges(dgl_g) > edge_limit
       THEN dgl_subg' \in SampleSubg(dgl_g, edge_limit)
       ELSE dgl_subg' = dgl_g
  /\ vPc' = IF "raised" \in DOMAIN LinkxHomophily(dgl_g, ArgMax(vY))
              THEN "ZeroDivisionError" ELSE "constructed"
  /\ UNCHANGED <<data_name, edge_limit, add_mask, dgl_g, vY, sub_g>>
  /\ UNCHANGED maskVars /\ UNCHANGED evalFrame

\* a later call evaluator.sample_subg(g) on some graph g
SampleSubgCall ==
  /\ vPc = "constructed"
  /\ \E g \in EvalGraphs(EvalNodes) :
       /\ dgl_g' = g
       /\ sub_g' \in SampleSubg(g, edge_limit)
  /\ vPc' = "sampled"
  /\ UNCHANGED <<data_name, edge_limit, add_mask, vY, dgl_subg>>
  /\ UNCHANGED maskVars /\ UNCHANGED evalFrame

EvalNext ==
  \/ EvaluatorInit \/ PreprocessCallAddMask
  \/ AddMaskDispatch \/ AddMaskBenchmarkLoop \/ AddMaskReturn
  \/ PreprocessStatistics \/ SampleSubgCall

(***************************************************************************)
(* main(args) of train_async.py.  yaml_data is the loaded configuration:   *)
(* a function from the keys it holds to their values; reading a key it     *)
(* does not hold raises KeyError, which ends the run.  The two streams'    *)
(* parameters live in a heap of tensors: "pX" (model.graph_encoder.pred_X) *)
(* and "pE" (pred_E) are the live parameters, "c1".."c3" are the cells     *)
(* deepcopy allocates.  state_dict() returns references to the live        *)
(* tensors, deepcopy returns references to fresh cells holding the same    *)
(* values.  Each stream is one scalar parameter; grad[p] is p's .grad      *)
(* (has = FALSE: None).                                                    *)
(***************************************************************************)
TrainNodes == 3
TrainBatchSize == 2
TrainMaxEpochs == 2
TrainMaxNorm == 1
TrainMaxGrad == 2

\* float('inf') of lines 82-84 and 88-90: larger than every value drawn
Inf == 1000

RequiredKeys ==
  {"diffusion.T_X", "diffusion.T_E", "train.batch_size", "train.val_batch_size",
   "train.num_epochs", "train.max_grad_norm", "optimizer_X", "optimizer_E",
   "lr_scheduler", "mlp_X", "gnn_E"}

\* the configurations drawn: complete, or complete but for one key
Configs ==
  LET full == { [k \in RequiredKeys |->
                   CASE k = "train.num_epochs" -> ne
                     [] k = "train.max_grad_norm" -> mg
                     [] k = "train.batch_size" -> TrainBatchSize
                     [] OTHER -> 1] : ne \in 0..TrainMaxEpochs, mg \in 1..TrainMaxNorm }
  IN full \cup { [k \in RequiredKeys \ {m} |-> c[k]] : c \in full, m \in RequiredKeys }

Has(k) == k \in DOMAIN yaml_data

LiveAddrs == {"pX", "pE"}
CopyAddrs == {"c1", "c2", "c3"}
Addrs == LiveAddrs \cup CopyAddrs
\* a mutant of ParamsX: the X clip ranges over all parameters of the model
ParamsAll == {"pX", "pE"}
\* model.graph_encoder.pred_X.parameters(), model.graph_encoder.pred_E.parameters()
ParamsX == {"pX"}
ParamsE == {"pE"}

NoGrad == [has |-> FALSE, val |-> 0]
Deref(h, a) == IF a = "null" THEN 0 ELSE h[a]

\* a mutant of DeepCopyTarget: the state dict is kept by reference
DeepCopyAlias(a, used) == a

\* deepcopy(state_dict): the cell the copy of tensor a goes to, a cell that
\* nothing refers to (used: the cells still referred to)
DeepCopyTarget(a, used) == CHOOSE c \in CopyAddrs : c \notin used

\* a mutant of HeapAfterCopy: the copy is never written
HeapAfterCopyStale(h, a, c, dropped) == h

\* the heap after deepcopy wrote the copy of a to cell c; cells nothing refers
\* to any more (dropped) are cleared
HeapAfterCopy(h, a, c, dropped) ==
  [x \in Addrs |-> IF x = c THEN h[a]
                   ELSE IF x \in dropped /\ x \in CopyAddrs THEN 0 ELSE h[x]]

RECURSIVE ISqrtFrom(_, _)
ISqrtFrom(n, r) == IF (r + 1) * (r + 1) > n THEN r ELSE ISqrtFrom(n, r + 1)
RECURSIVE SumSquares(_, _)
SumSquares(gr, P) ==
  IF P = {} THEN 0
  ELSE LET p == CHOOSE p \in P : TRUE
       IN (IF gr[p].has THEN gr[p].val * gr[p].val ELSE 0) + SumSquares(gr, P \ {p})
\* the 2-norm of the gradients of the parameters P (whole part)
TotalNorm(gr, P) == ISqrtFrom(SumSquares(gr, P), 0)
TruncDiv(a, b) == IF a >= 0 THEN a \div b ELSE -((-a) \div b)

\* nn.utils.clip_grad_norm_(parameters, max_norm): the gradients of the
\* parameters P are scaled by max_norm / total_norm when total_norm exceeds
\* max_norm (the 1e-6 in the denominator is dropped); other gradients are
\* left alone
ClipGradNorm(gr, P, max_norm) ==
  LET total_norm == TotalNorm(gr, P) IN
  [p \in DOMAIN gr |->
     IF p \in P /\ gr[p].has /\ total_norm > max_norm
       THEN [has |-> TRUE, val |-> TruncDiv(gr[p].val * max_norm, total_norm)]
       ELSE gr[p]]

\* optimizer.zero_grad() over the parameters P
ZeroGradOf(gr, P) == [p \in DOMAIN gr |-> IF p \in P THEN NoGrad ELSE gr[p]]

\* optimizer.step() over the parameters P: every parameter with a gradient
\* moves against its own gradient (AdamW's moments and decay are left out)
OptimizerStep(h, gr, P) ==
  [x \in Addrs |-> IF x \in P /\ gr[x].has THEN h[x] - gr[x].val ELSE h[x]]

\* len(data_loader): ceil(len(edge_index) / batch_size)
NumBatches(len, batch_size) == (len + batch_size - 1) \div batch_size

\* a mutant of MoreEpochs: the loop runs one epoch more
MoreEpochsOffByOne(e, num_epochs) == e + 1 <= num_epochs

\* for epoch in range(num_epochs): whether an epoch follows epoch e
MoreEpochs(e, num_epochs) == e + 1 < num_epochs

NoVal == [X |-> <<>>, E |-> <<>>]
CycleIdle ==
  /\ val = NoVal /\ lr_sched = [X |-> 0, E |-> 0]
  /\ since_improved = [X |-> 0, E |-> 0]

TrainIdle ==
  /\ tPc = "idle" /\ yaml_data = <<>> /\ wandb_run = FALSE /\ wandb_logged = 0
  /\ cpt_dir = FALSE /\ n_batches = 0 /\ heap = <<>> /\ grad = <<>>
  /\ loss_X = "none" /\ loss_E = "none" /\ epoch = -1 /\ batch = -1 /\ num_patient_epochs = -1
  /\ best_epoch_X = -1 /\ best_state_dict_X = "null" /\ best_val_nll_X = -1
  /\ best_log_p_0_X = -1 /\ best_denoise_match_X = -1
  /\ best_epoch_E = -1 /\ best_state_dict_E = "null" /\ best_val_nll_E = -1
  /\ best_log_p_0_E = -1 /\ best_denoise_match_E = -1
  /\ CycleIdle

\* main is entered: load_train_yaml returned yaml_data
TrainInit ==
  /\ tPc = "read_T"
  /\ yaml_data \in Configs
  /\ wandb_run = FALSE /\ wandb_logged = 0 /\ cpt_dir = FALSE /\ n_batches = 0
  /\ heap = [x \in Addrs |-> 0]
  /\ grad = [p \in LiveAddrs |-> NoGrad]
  /\ loss_X = "none" /\ loss_E = "none" /\ epoch = -1 /\ batch = -1 /\ num_patient_epochs = -1
  /\ best_epoch_X = -1 /\ best_state_dict_X = "null" /\ best_val_nll_X = -1
  /\ best_log_p_0_X = -1 /\ best_denoise_match_X = -1
  /\ best_epoch_E = -1 /\ best_state_dict_E = "null" /\ best_val_nll_E = -1
  /\ best_log_p_0_E = -1 /\ best_denoise_match_E = -1
  /\ CycleIdle

\* the step goes to l when the keys are all held, and raises KeyError otherwise
Reads(keys, l) == tPc' = IF \A k \in keys : Has(k) THEN l ELSE "KeyError"

restOfRun == <<yaml_data, wandb_run, wandb_logged, cpt_dir, n_batches, heap, grad,
               loss_X, loss_E, epoch, batch, num_patient_epochs>>
bestAndCycle == <<bestVarsX, bestVarsE, cycleVars>>

\* lines 18-23: T_X = yaml_data['diffusion']['T_X'], T_E likewise
ReadDiffusionSteps ==
  /\ tPc = "read_T"
  /\ Reads({"diffusion.T_X", "diffusion.T_E"}, "wandb_init")
  /\ UNCHANGED <<restOfRun, bestAndCycle, edgeVars, trainFrame>>

\* lines 24-27: wandb.init(...)
WandbInit ==
  /\ tPc = "wandb_init"
  /\ wandb_run' = TRUE
  /\ tPc' = "load"
  /\ UNCHANGED <<yaml_data, wandb_logged, cpt_dir, n_batches, heap, grad, loss_X,
                 loss_E, epoch, batch, num_patient_epochs>>
  /\ UNCHANGED <<bestAndCycle, edgeVars, trainFrame>>

\* lines 29-50: the data is loaded and moved to the device, N = g.num_nodes(),
\* torch.triu_indices is entered
LoadData ==
  /\ tPc = "load"
  /\ ePc' = "triu" /\ eN' = TrainNodes /\ triu_row' = 0
  /\ triu_col' = TriuRowStart(0)
  /\ dst' = <<>> /\ src' = <<>> /\ edge_index' = <<>>
  /\ tPc' = "edge_index"
  /\ UNCHANGED <<restOfRun, bestAndCycle, trainFrame>>

\* lines 55-62: set_seed(), the two DataLoaders
BuildLoaders ==
  /\ tPc = "edge_index" /\ ePc = "built"
  /\ Reads({"train.batch_size", "train.val_batch_size"}, "model")
  /\ n_batches' = IF Has("train.batch_size")
                    THEN NumBatches(Len(edge_index), yaml_data["train.batch_size"])
                    ELSE n_batches
  /\ UNCHANGED <<yaml_data, wandb_run, wandb_logged, cpt_dir, heap, grad, loss_X,
                 loss_E, epoch, batch, num_patient_epochs>>
  /\ UNCHANGED <<bestAndCycle, edgeVars, trainFrame>>

\* lines 64-70: ModelAsync(...): the parameters of the two streams are created
BuildModel ==
  /\ tPc = "model"
  /\ Reads({"mlp_X", "gnn_E"}, "optimizers")
  /\ IF Has("mlp_X") /\ Has("gnn_E")
       THEN heap' = [heap EXCEPT !["pX"] = 0, !["pE"] = 0]
       ELSE heap' = heap
  /\ UNCHANGED <<yaml_data, wandb_run, wandb_logged, cpt_dir, n_batches, grad, loss_X,
                 loss_E, epoch, batch, num_patient_epochs>>
  /\ UNCHANGED <<bestAndCycle, edgeVars, trainFrame>>

\* lines 72-78: the two AdamW optimizers and the two ReduceLROnPlateau schedulers
BuildOptimizers ==
  /\ tPc = "optimizers"
  /\ Reads({"optimizer_X", "optimizer_E", "lr_scheduler"}, "init_best")
  /\ UNCHANGED <<restOfRun, bestAndCycle, edgeVars, trainFrame>>

\* lines 80-90: the best records of the two streams
InitBest ==
  /\ tPc = "init_best"
  /\ LET cX == DeepCopyTarget("pX", {})
         cE == DeepCopyTarget("pE", {cX})
     IN /\ best_state_dict_X' = cX
        /\ best_state_dict_E' = cE
        /\ heap' = HeapAfterCopy(HeapAfterCopy(heap, "pX", cX, {}), "pE", cE, {})
  /\ best_epoch_X' = 0 /\ best_val_nll_X' = Inf /\ best_log_p_0_X' = Inf
  /\ best_denoise_match_X' = Inf
  /\ best_epoch_E' = 0 /\ best_val_nll_E' = Inf /\ best_log_p_0_E' = Inf
  /\ best_denoise_match_E' = Inf
  /\ tPc' = "makedirs"
  /\ UNCHANGED <<yaml_data, wandb_run, wandb_logged, cpt_dir, n_batches, grad, loss_X,
                 loss_E, epoch, batch, num_patient_epochs>>
  /\ UNCHANGED <<cycleVars, edgeVars, trainFrame>>

\* lines 93-94: os.makedirs(model_cpt_dir, exist_ok=True)
MakeCheckpointDir ==
  /\ tPc = "makedirs"
  /\ cpt_dir' = TRUE
  /\ tPc' = "start_loop"
  /\ UNCHANGED <<yaml_data, wandb_run, wandb_logged, n_batches, heap, grad, loss_X,
                 loss_E, epoch, batch, num_patient_epochs>>
  /\ UNCHANGED <<bestAndCycle, edgeVars, trainFrame>>

\* lines 96-97: num_patient_epochs = 0; range(train_config["num_epochs"])
StartLoop ==
  /\ tPc = "start_loop"
  /\ num_patient_epochs' = 0
  /\ Reads({"train.num_epochs"}, "for_epoch")
  /\ UNCHANGED <<yaml_data, wandb_run, wandb_logged, cpt_dir, n_batches, heap, grad,
                 loss_X, loss_E, epoch, batch>>
  /\ UNCHANGED <<bestAndCycle, edgeVars, trainFrame>>

\* lines 97-98: the next epoch begins (model.train()), or the loop and main end
ForEpoch ==
  /\ tPc = "for_epoch"
  /\ IF MoreEpochs(epoch, yaml_data["train.num_epochs"])
       THEN epoch' = epoch + 1 /\ batch' = -1 /\ tPc' = "for_batch"
       ELSE UNCHANGED <<epoch, batch>> /\ tPc' = "DONE"
  /\ UNCHANGED <<yaml_data, wandb_run, wandb_logged, cpt_dir, n_batches, heap, grad,
                 loss_X, loss_E, num_patient_epochs>>
  /\ UNCHANGED <<bestAndCycle, edgeVars, trainFrame>>

\* line 100: the data loader yields the next batch, or is exhausted and the
\* body of the epoch loop ends (after: where the run goes then)
ForBatch(after) ==
  /\ tPc = "for_batch"
  /\ IF batch + 1 < n_batches
       THEN batch' = batch + 1 /\ tPc' = "forward"
       ELSE UNCHANGED batch /\ tPc' = after
  /\ UNCHANGED <<yaml_data, wandb_run, wandb_logged, cpt_dir, n_batches, heap, grad,
                 loss_X, loss_E, epoch, num_patient_epochs>>
  /\ UNCHANGED <<bestAndCycle, edgeVars, trainFrame>>

\* in main the epoch loop has no statement after the batch loop
ForBatchOfMain == ForBatch("for_epoch")

\* lines 101-111: loss_X, loss_E = model.log_p_t(...); loss = loss_X + loss_E
\* (the losses are kept as tokens: their values are the denoiser's business)
\* (the losses are kept as tokens, their values are the denoiser's business)
Forward ==
  /\ tPc = "forward"
  /\ loss_X' = "loss" /\ loss_E' = "loss"
  /\ tPc' = "zero_grad"
  /\ UNCHANGED <<yaml_data, wandb_run, wandb_logged, cpt_dir, n_batches, heap, grad,
                 epoch, batch, num_patient_epochs>>
  /\ UNCHANGED <<bestAndCycle, edgeVars, trainFrame>>

\* lines 113-114: optimizer_X.zero_grad(); optimizer_E.zero_grad()
ZeroGrad ==
  /\ tPc = "zero_grad"
  /\ grad' = ZeroGradOf(ZeroGradOf(grad, ParamsX), ParamsE)
  /\ tPc' = "backward"
  /\ UNCHANGED <<yaml_data, wandb_run, wandb_logged, cpt_dir, n_batches, heap,
                 loss_X, loss_E, epoch, batch, num_patient_epochs>>
  /\ UNCHANGED <<bestAndCycle, edgeVars, trainFrame>>

\* line 116: loss.backward() adds the gradient of loss_X + loss_E to the .grad
\* of every parameter of both streams; G: the values a gradient may take
BackwardDraw(G) ==
  /\ tPc = "backward"
  /\ \E gX, gE \in G :
       grad' = [p \in LiveAddrs |->
                  [has |-> TRUE,
                   val |-> grad[p].val + (IF p \in ParamsX THEN gX ELSE gE)]]
  /\ tPc' = "clip_X"
  /\ UNCHANGED <<yaml_data, wandb_run, wandb_logged, cpt_dir, n_batches, heap,
                 loss_X, loss_E, epoch, batch, num_patient_epochs>>
  /\ UNCHANGED <<bestAndCycle, edgeVars, trainFrame>>

Backward == BackwardDraw((-TrainMaxGrad)..TrainMaxGrad)

\* lines 118-119: clip_grad_norm_(pred_X.parameters(), train_config["max_grad_norm"])
ClipX ==
  /\ tPc = "clip_X"
  /\ Reads({"train.max_grad_norm"}, "clip_E")
  /\ grad' = IF Has("train.max_grad_norm")
               THEN ClipGradNorm(grad, ParamsX, yaml_data["train.max_grad_norm"])
               ELSE grad
  /\ UNCHANGED <<yaml_data, wandb_run, wandb_logged, cpt_dir, n_batches, heap,
                 loss_X, loss_E, epoch, batch, num_patient_epochs>>
  /\ UNCHANGED <<bestAndCycle, edgeVars, trainFrame>>

\* lines 120-121: clip_grad_norm_(pred_E.parameters(), train_config["max_grad_norm"])
ClipE ==
  /\ tPc = "clip_E"
  /\ grad' = ClipGradNorm(grad, ParamsE, yaml_data["train.max_grad_norm"])
  /\ tPc' = "step_X"
  /\ UNCHANGED <<yaml_data, wandb_run, wandb_logged, cpt_dir, n_batches, heap,
                 loss_X, loss_E, epoch, batch, num_patient_epochs>>
  /\ UNCHANGED <<bestAndCycle, edgeVars, trainFrame>>

\* line 123: optimizer_X.step()
StepX ==
  /\ tPc = "step_X"
  /\ heap' = OptimizerStep(heap, grad, {"pX"})
  /\ tPc' = "step_E"
  /\ UNCHANGED <<yaml_data, wandb_run, wandb_logged, cpt_dir, n_batches, grad,
                 loss_X, loss_E, epoch, batch, num_patient_epochs>>
  /\ UNCHANGED <<bestAndCycle, edgeVars, trainFrame>>

\* line 124: optimizer_E.step()
StepE ==
  /\ tPc = "step_E"
  /\ heap' = OptimizerStep(heap, grad, {"pE"})
  /\ tPc' = "log"
  /\ UNCHANGED <<yaml_data, wandb_run, wandb_logged, cpt_dir, n_batches, grad,
                 loss_X, loss_E, epoch, batch, num_patient_epochs>>
  /\ UNCHANGED <<bestAndCycle, edgeVars, trainFrame>>

\* lines 126-127: wandb.log({"train/loss_X": ..., "train/loss_E": ...});
\* wandb_logged counts the records sent
Log ==
  /\ tPc = "log"
  /\ wandb_logged' = wandb_logged + 1
  /\ tPc' = "for_batch"
  /\ UNCHANGED <<yaml_data, wandb_run, cpt_dir, n_batches, heap, grad,
                 loss_X, loss_E, epoch, batch, num_patient_epochs>>
  /\ UNCHANGED <<bestAndCycle, edgeVars, trainFrame>>

\* the steps of one mini-batch
BatchSteps == Forward \/ ZeroGrad \/ Backward \/ ClipX \/ ClipE \/ StepX \/ StepE \/ Log

\* the steps of main before the loop
SetUpSteps ==
  \/ ReadDiffusionSteps \/ WandbInit \/ LoadData
  \/ TriuEmit \/ TriuNextRow \/ StackEdgeIndex
  \/ BuildLoaders \/ BuildModel \/ BuildOptimizers \/ InitBest \/ MakeCheckpointDir
  \/ StartLoop

TrainNext == SetUpSteps \/ ForEpoch \/ ForBatchOfMain \/ BatchSteps

(***************************************************************************)
(* The validation cycle.  main holds the best records, the schedulers and  *)
(* num_patient_epochs but no statement that uses them after the batch      *)
(* loop; the steps below follow the specification document (section 4.2):  *)
(* after the batches of an epoch, VALIDATE yields (nll, log_p0,            *)
(* denoise_match) per stream, CHECKPOINT_DECISION replaces a stream's best *)
(* record when its nll is strictly lower than the best recorded,           *)
(* SCHEDULE_STEP steps each stream's scheduler once (lr_sched counts it), STOP_CHECK ends    *)
(* the run when both streams have gone more than the configured number of  *)
(* validations without improvement.                                        *)
(***************************************************************************)
OrchMaxNll == 1
OrchMaxAux == 0
OrchPatience == 0

\* the values a validation may report for nll: 0 .. OrchMaxNll, or inf
NllValues == (0..OrchMaxNll) \cup {Inf}

\* the (log_p0, denoise_match) pairs a validation may report: the two differ
AuxValues == { <<a, a + 1>> : a \in 0..OrchMaxAux }

\* a validation result improves on the best recorded nll
Improves(nll, best) == nll < best

\* in the orchestrator the validation cycle follows the batches of an epoch
ForBatchOfOrchestrator == ForBatch("validate")

\* the orchestrator is followed with one gradient value per batch, the largest
\* (it exceeds every max_grad_norm drawn, so every step moves the parameters)
BackwardOfOrchestrator == BackwardDraw({TrainMaxGrad})

OrchBatchSteps ==
  Forward \/ ZeroGrad \/ BackwardOfOrchestrator \/ ClipX \/ ClipE \/ StepX \/ StepE \/ Log

Validate ==
  /\ tPc = "validate"
  /\ \E nX, nE \in NllValues, aX, aE \in AuxValues :
       val' = [X |-> [nll |-> nX, log_p_0 |-> aX[1], denoise_match |-> aX[2]],
               E |-> [nll |-> nE, log_p_0 |-> aE[1], denoise_match |-> aE[2]]]
  /\ tPc' = "checkpoint_X"
  /\ UNCHANGED <<restOfRun, bestVarsX, bestVarsE, lr_sched, since_improved>>
  /\ UNCHANGED <<edgeVars, trainFrame>>

CheckpointDecisionX ==
  /\ tPc = "checkpoint_X"
  /\ IF Improves(val.X.nll, best_val_nll_X)
       THEN LET c == DeepCopyTarget("pX", {best_state_dict_X, best_state_dict_E}) IN
            /\ best_state_dict_X' = c
            /\ heap' = HeapAfterCopy(heap, "pX", c, {best_state_dict_X} \ {c})
            /\ best_epoch_X' = epoch
            /\ best_val_nll_X' = val.X.nll
            /\ best_log_p_0_X' = val.X.log_p_0
            /\ best_denoise_match_X' = val.X.denoise_match
            /\ since_improved' = [since_improved EXCEPT !.X = 0]
       ELSE /\ UNCHANGED <<heap, bestVarsX>>
            /\ since_improved' = [since_improved EXCEPT !.X = @ + 1]
  /\ tPc' = "checkpoint_E"
  /\ UNCHANGED <<yaml_data, wandb_run, wandb_logged, cpt_dir, n_batches, grad, loss_X,
                 loss_E, epoch, batch, num_patient_epochs>>
  /\ UNCHANGED <<bestVarsE, val, lr_sched, edgeVars, trainFrame>>

CheckpointDecisionE ==
  /\ tPc = "checkpoint_E"
  /\ IF Improves(val.E.nll, best_val_nll_E)
       THEN LET c == DeepCopyTarget("pE", {best_state_dict_X, best_state_dict_E}) IN
            /\ best_state_dict_E' = c
            /\ heap' = HeapAfterCopy(heap, "pE", c, {best_state_dict_E} \ {c})
            /\ best_epoch_E' = epoch
            /\ best_val_nll_E' = val.E.nll
            /\ best_log_p_0_E' = val.E.log_p_0
            /\ best_denoise_match_E' = val.E.denoise_match
            /\ since_improved' = [since_improved EXCEPT !.E = 0]
       ELSE /\ UNCHANGED <<heap, bestVarsE>>
            /\ since_improved' = [since_improved EXCEPT !.E = @ + 1]
  /\ tPc' = "schedule"
  /\ UNCHANGED <<yaml_data, wandb_run, wandb_logged, cpt_dir, n_batches, grad, loss_X,
                 loss_E, epoch, batch, num_patient_epochs>>
  /\ UNCHANGED <<bestVarsX, val, lr_sched, edgeVars, trainFrame>>

ScheduleStep ==
  /\ tPc = "schedule"
  /\ lr_sched' = [X |-> lr_sched.X + 1, E |-> lr_sched.E + 1]
  /\ tPc' = "stop_check"
  /\ UNCHANGED <<restOfRun, bestVarsX, bestVarsE, val, since_improved>>
  /\ UNCHANGED <<edgeVars, trainFrame>>

StopCheck ==
  /\ tPc = "stop_check"
  /\ tPc' = IF since_improved.X > OrchPatience /\ since_improved.E > OrchPatience
              THEN "DONE" ELSE "for_epoch"
  /\ val' = NoVal
  /\ UNCHANGED <<restOfRun, bestVarsX, bestVarsE, lr_sched, since_improved>>
  /\ UNCHANGED <<edgeVars, trainFrame>>

ValidationCycle ==
  Validate \/ CheckpointDecisionX \/ CheckpointDecisionE \/ ScheduleStep \/ StopCheck

OrchNext ==
  SetUpSteps \/ ForEpoch \/ ForBatchOfOrchestrator \/ OrchBatchSteps \/ ValidationCycle

(***************************************************************************)
(* The specifications.                                                     *)
(***************************************************************************)
InitEdge == EdgeInit /\ MaskIdle /\ HomIdle /\ EvalIdle /\ TrainIdle
SpecEdge == InitEdge /\ [][EdgeNext]_vars

InitMask == MaskInit /\ EdgeIdle /\ HomIdle /\ EvalIdle /\ TrainIdle
SpecMask == InitMask /\ [][MaskNext]_vars

InitHom == HomInit /\ EdgeIdle /\ MaskIdle /\ EvalIdle /\ TrainIdle
SpecHom == InitHom /\ [][HomNext]_vars

InitEval == EvalInit /\ EdgeIdle /\ MaskIdle /\ HomIdle /\ TrainIdle
SpecEval == InitEval /\ [][EvalNext]_vars

InitTrain == TrainInit /\ EdgeIdle /\ MaskIdle /\ HomIdle /\ EvalIdle
SpecTrain == InitTrain /\ [][TrainNext]_vars /\ WF_vars(TrainNext)

SpecOrch == InitTrain /\ [][OrchNext]_vars /\ WF_vars(OrchNext)

(***************************************************************************)
(* The claims.                                                             *)
(***************************************************************************)
\* C1: for every N >= 2 the edge index holds exactly N(N-1)/2 pairs, no pair
\* occurs twice, and in every pair the first index is strictly smaller than
\* the second (so no pair has i = j).
EdgeIndexIsStrictUpperTriangle ==
  ePc = "built" =>
    /\ eN >= 2
    /\ Len(edge_index) = (eN * (eN - 1)) \div 2
    /\ \A k, l \in 1..Len(edge_index) : edge_index[k] = edge_index[l] => k = l
    /\ \A k \in 1..Len(edge_index) :
         /\ edge_index[k][1] < edge_index[k][2]
         /\ edge_index[k][1] \in 0..(eN - 1)
         /\ edge_index[k][2] \in 0..(eN - 1)

\* C1 witness: the index of a 5-node graph is built and holds 10 pairs
EdgeIndexBuiltForFiveNodes ==
  ePc = "built" /\ eN = 5 /\ Len(edge_index) = 10 /\ edge_index[10] = <<3, 4>>

\* the members of class y
ClassMembers(y) == {v \in 0..(mN - 1) : Y_one_hot[v][y] = 1}

\* C2: after add_mask_cora, add_mask_citeseer or add_mask_benchmark ran on a
\* one-hot label tensor, at most one of train_mask, val_mask, test_mask is
\* true for every node, whatever the permutations and the class sizes
\* (classes smaller than the quota included).
MasksPairwiseDisjoint ==
  mPc = "returned" =>
    \A v \in 0..(mN - 1) :
      /\ ~(ndata.train_mask[v] /\ ndata.val_mask[v])
      /\ ~(ndata.train_mask[v] /\ ndata.test_mask[v])
      /\ ~(ndata.val_mask[v] /\ ndata.test_mask[v])

\* C2 witness: masks were attached for a graph that has a class larger than its
\* train and validation quota (all three masks are populated) and a non-empty
\* class smaller than the train quota
MasksBuiltWithFullAndShortClasses ==
  /\ mPc = "returned"
  /\ \E v \in 0..(mN - 1) : ndata.train_mask[v]
  /\ \E v \in 0..(mN - 1) : ndata.val_mask[v]
  /\ \E v \in 0..(mN - 1) : ndata.test_mask[v]
  /\ \E y \in 0..(mC - 1) :
       ClassMembers(y) # {} /\ Cardinality(ClassMembers(y)) < TrainQuota

\* the quantities the homophily claim is stated in, read off the edge set:
\* the nodes of class k, the edges into them, and those among these edges
\* that come from class k too
ClassOf(k) == {v \in Nodes(hGraph) : hY[v] = k}
EdgesInto(k) == {e \in hGraph.edges : hY[e[2]] = k}
SameClassEdgesInto(k) == {e \in EdgesInto(k) : hY[e[1]] = k}
HomClasses == 0..(NumClasses(hGraph, hY) - 1)
\* r_k - s_k
Excess(k) ==
  FracSub(Frac(Cardinality(SameClassEdgesInto(k)), Cardinality(EdgesInto(k))),
          Frac(Cardinality(ClassOf(k)), hGraph.n))
RECURSIVE ExcessSum(_)
ExcessSum(K) ==
  IF K = {} THEN FracZero
  ELSE LET k == CHOOSE k \in K : TRUE
       IN FracAdd(IF FracPositive(Excess(k)) THEN Excess(k) ELSE FracZero,
                  ExcessSum(K \ {k}))
\* C >= 2 classes, every class with total in-degree > 0
HomPrecondition ==
  /\ hPc = "done"
  /\ NumClasses(hGraph, hY) >= 2
  /\ \A k \in HomClasses : EdgesInto(k) # {}
HomFormulaHolds ==
  HomPrecondition =>
    hValue = [returned |-> FracDivInt(ExcessSum(HomClasses), NumClasses(hGraph, hY) - 1)]
\* 4 nodes, 2 classes of 2 nodes, edges between same-class nodes only
TwoByTwoSameClassOnly ==
  /\ HomPrecondition
  /\ hGraph.n = 4 /\ NumClasses(hGraph, hY) = 2
  /\ Cardinality(ClassOf(0)) = 2 /\ Cardinality(ClassOf(1)) = 2
  /\ \A e \in hGraph.edges : hY[e[1]] = hY[e[2]]
\* r_k = s_k for every class
RatioEqualsShareEverywhere ==
  /\ HomPrecondition
  /\ \A k \in HomClasses : Excess(k) = FracZero

\* C9 (as stated): with C >= 2 classes, each of total in-degree > 0,
\* linkx_homophily returns (1/(C-1)) * sum_k max(0, r_k - s_k); it returns 0.5
\* for a 4-node graph of 2 classes of 2 nodes with same-class edges only, and
\* 0 when r_k = s_k for every class.
HomophilyAsStated ==
  /\ HomFormulaHolds
  /\ TwoByTwoSameClassOnly => hValue = [returned |-> Frac(1, 2)]
  /\ RatioEqualsShareEverywhere => hValue = [returned |-> FracZero]

\* C9 (amended): the same, except that the 4-node graph of 2 classes of 2
\* nodes with same-class edges only yields 1: each of the two classes
\* contributes 1 - 1/2, and the sum 1 is divided by C - 1 = 1.
HomophilyFormulaAndCases ==
  /\ HomFormulaHolds
  /\ TwoByTwoSameClassOnly => hValue = [returned |-> Frac(1, 1)]
  /\ RatioEqualsShareEverywhere => hValue = [returned |-> FracZero]

\* C9 witness: the function returned 1 for a 4-node graph of 2 classes of 2
\* nodes whose edges join same-class nodes only
HomophilyOfTwoByTwoIsOne ==
  TwoByTwoSameClassOnly /\ hValue = [returned |-> Frac(1, 1)]

\* C3: for any graph whose edge count exceeds edge_limit, sample_subg returns
\* a graph over the same node count with at most edge_limit directed edges,
\* and symmetric: (u, v) is an edge iff (v, u) is, whatever subset is drawn.
SampledSubgraphWithinCapAndSymmetric ==
  (vPc = "sampled" /\ NumEdges(dgl_g) > edge_limit) =>
    /\ sub_g.n = dgl_g.n
    /\ NumEdges(sub_g) <= edge_limit
    /\ \A u, v \in Nodes(sub_g) : (<<u, v>> \in sub_g.edges) <=> (<<v, u>> \in sub_g.edges)

\* C3 witness: sample_subg ran on a graph with more than edge_limit edges and
\* returned a graph of exactly edge_limit > 0 edges
SampledSubgraphFillsCap ==
  /\ vPc = "sampled" /\ NumEdges(dgl_g) > edge_limit
  /\ edge_limit > 0 /\ NumEdges(sub_g) = edge_limit

\* C4 (as stated): constructing an Evaluator with a dataset name outside
\* {cora, citeseer, amazon_photo, amazon_computer} fails with a ValueError
\* instead of completing; so a completed construction has a recognized name.
UnrecognizedNameNeverConstructs ==
  vPc \in {"constructed", "sampled"} => data_name \in RecognizedNames

(***************************************************************************)
(* Training run: configuration errors and the order of a mini-batch.       *)
(***************************************************************************)
BatchLocs ==
  {"forward", "zero_grad", "backward", "clip_X", "clip_E", "step_X", "step_E", "log"}

\* C5, as stated: when the run aborts on a missing configuration key, no
\* metrics run has been started, no checkpoint directory has been created and
\* no gradient or parameter has been changed.
MissingKeyAbortsBeforeAnyMutation ==
  tPc = "KeyError" =>
    /\ ~wandb_run
    /\ ~cpt_dir
    /\ \A p \in LiveAddrs : ~grad[p].has
    /\ heap["pX"] = 0 /\ heap["pE"] = 0

\* the abort at the first clip: the metrics run is started, the checkpoint
\* directory is created and both gradient sets are filled
AbortAtFirstClip ==
  /\ tPc = "KeyError" /\ wandb_run /\ cpt_dir
  /\ \A p \in LiveAddrs : grad[p].has
  /\ \E p \in LiveAddrs : grad[p].val # 0

\* a gradient g clipped on its own against the cap
OwnClip(g, cap) == IF g > cap THEN cap ELSE IF g < -cap THEN -cap ELSE g

MaxGradNorm == yaml_data["train.max_grad_norm"]

\* C10: in a mini-batch both gradient sets are zeroed, then one backward pass
\* fills both, then the gradient of X is clipped on its own (E's is left as
\* it is), then the gradient of E is clipped on its own (X's is left as it
\* is), then optimizer X moves X's parameters by X's gradient and optimizer E
\* moves E's by E's; no parameter moves before both clips are done, and the
\* update of X is the one X's own clip gives whatever was clipped of E.
BatchStepOrderAndOwnClips ==
  [][ /\ tPc = "zero_grad" =>
           tPc' = "backward" /\ (\A p \in LiveAddrs : ~grad'[p].has) /\ heap' = heap
      /\ tPc = "backward" =>
           tPc' = "clip_X" /\ (\A p \in LiveAddrs : grad'[p].has) /\ heap' = heap
      /\ tPc = "clip_X" =>
           /\ tPc' \in {"clip_E", "KeyError"}
           /\ heap' = heap
           /\ grad'["pE"] = grad["pE"]
           /\ tPc' = "clip_E" => grad'["pX"].val = OwnClip(grad["pX"].val, MaxGradNorm)
      /\ tPc = "clip_E" =>
           /\ tPc' = "step_X"
           /\ heap' = heap
           /\ grad'["pX"] = grad["pX"]
           /\ grad'["pE"].val = OwnClip(grad["pE"].val, MaxGradNorm)
      /\ tPc = "step_X" =>
           /\ tPc' = "step_E"
           /\ grad' = grad
           /\ heap'["pX"] = heap["pX"] - grad["pX"].val
           /\ heap'["pE"] = heap["pE"]
      /\ tPc = "step_E" =>
           /\ tPc' = "log"
           /\ grad' = grad
           /\ heap'["pE"] = heap["pE"] - grad["pE"].val
           /\ heap'["pX"] = heap["pX"]
      /\ tPc \in {"forward", "log", "for_batch", "for_epoch"} => heap' = heap
    ]_vars

\* X's clip has run and left X's gradient, below the cap, as it was; E's
\* gradient exceeds the cap and is about to be clipped
EOverCapWhileXIsNot ==
  /\ tPc = "clip_E"
  /\ grad["pX"].val # 0
  /\ Abs(grad["pX"].val) <= MaxGradNorm
  /\ Abs(grad["pE"].val) > MaxGradNorm
  /\ batch > 0

(***************************************************************************)
(* The validation cycle: best records, stopping.                           *)
(***************************************************************************)
\* a stream's best record, the snapshot taken by value
BestRecordX ==
  [epoch |-> best_epoch_X, params |-> Deref(heap, best_state_dict_X),
   nll |-> best_val_nll_X, log_p_0 |-> best_log_p_0_X,
   denoise_match |-> best_denoise_match_X]
BestRecordE ==
  [epoch |-> best_epoch_E, params |-> Deref(heap, best_state_dict_E),
   nll |-> best_val_nll_E, log_p_0 |-> best_log_p_0_E,
   denoise_match |-> best_denoise_match_E]

CompleteConfig == DOMAIN yaml_data = RequiredKeys
BudgetExhausted == Has("train.num_epochs") /\ epoch + 1 >= yaml_data["train.num_epochs"]
WithinBudget == Has("train.num_epochs") /\ epoch < yaml_data["train.num_epochs"]
BothOutOfPatience ==
  since_improved.X > OrchPatience /\ since_improved.E > OrchPatience
EndsAtBudgetOrPatience ==
  /\ [](tPc = "DONE" => BudgetExhausted \/ BothOutOfPatience)
  /\ [](tPc \in BatchLocs => WithinBudget /\ ~BothOutOfPatience)

====
